---------------------------- MODULE Spec2Model ----------------------------
(***************************************************************************)
(* A model of the view/filter engine of dmarc-viewer                       *)
(* (myDmarcApp/models.py, myDmarcApp/views.py).                            *)
(*                                                                         *)
(* The store holds the rows of the View, FilterSet and filter-field tables *)
(* (rows, nextId) and the Record table (records).  Six specifications      *)
(* share the definitions:                                                  *)
(*   Spec       building, cloning and deleting trees of Views              *)
(*   SpecOrder  creating, cloning and ordering Views                       *)
(*   SpecOrderAll  the same, every order request listing every View        *)
(*   SpecQuery  the queries of one View over a Record store                *)
(*   SpecTable  the table and the CSV export of one View                   *)
(*   SpecDR     DateRange.getBeginEnd over a range of configurations       *)
(***************************************************************************)
EXTENDS Integers, Sequences, FiniteSets, TLC

VARIABLES
    rows,       \* the rows of View, FilterSet and every filter-field table
    nextId,     \* per table: the primary key the next INSERT gets
    records,    \* the Record table, each Record with its Report and children
    now,        \* what datetime.now() returns
    result      \* the last operation, its arguments and what it returned

vars == <<rows, nextId, records, now, result>>

-----------------------------------------------------------------------------
(* Bounds of the model *)

MaxViews == 3
MaxTreeViews == 2
MaxFilterSets == 2
MaxCriteria == 2
MaxQueryCriteria == 2
MaxRecords == 3
MaxQuantity == 13
MaxOrderedViews == 5

-----------------------------------------------------------------------------
(* Values *)

None == "None"

\* A datetime is [y, m, d, h]; DtKey orders datetimes as Python compares them.
Dt(y, m, d, h) == [y |-> y, m |-> m, d |-> d, h |-> h]

DtKey(dt) == ((dt.y * 100 + dt.m) * 100 + dt.d) * 100 + dt.h

\* a DateTimeField that is NULL
NoDt == Dt(0, 0, 0, 0)

\* dt.strftime('%Y%m%d') and to_char(dt, 'YYYYMMDD'): the eight digits, read
\* as a number (20240315); the time of day is dropped.
strftime(dt) == (dt.y * 100 + dt.m) * 100 + dt.d

IsLeap(y) == (y % 4 = 0 /\ y % 100 # 0) \/ y % 400 = 0

\* calendar.monthrange(year, month)[1]
DaysInMonth(y, m) ==
    IF m = 2 THEN (IF IsLeap(y) THEN 29 ELSE 28)
    ELSE IF m \in {4, 6, 9, 11} THEN 30 ELSE 31

\* the last day of the month before dt's
EndOfPrevMonth(dt) ==
    IF dt.m > 1 THEN [dt EXCEPT !.m = dt.m - 1, !.d = DaysInMonth(dt.y, dt.m - 1)]
    ELSE [dt EXCEPT !.y = dt.y - 1, !.m = 12, !.d = 31]

\* dt - relativedelta(days = n), n >= 0
RECURSIVE MinusDays(_, _)
MinusDays(dt, n) ==
    IF n < dt.d THEN [dt EXCEPT !.d = dt.d - n]
    ELSE MinusDays(EndOfPrevMonth(dt), n - dt.d)

\* a month taken as 30 days and a year as 365
MinusMonthsFixed(dt, yrs, mths) == MinusDays(dt, 365 * yrs + 30 * mths)

\* dt - relativedelta(years = yrs, months = mths), as dateutil computes it:
\* the constructor carries months beyond 11 into years; the subtraction moves
\* the year and the month and then clamps the day to the month's last day.
MinusMonths(dt, yrs, mths) ==
    LET years  == yrs + (mths \div 12)
        months == mths % 12
        y0     == dt.y - years
        m0     == dt.m - months
        year   == IF m0 < 1 THEN y0 - 1 ELSE y0
        month  == IF m0 < 1 THEN m0 + 12 ELSE m0
        day    == IF dt.d > DaysInMonth(year, month)
                  THEN DaysInMonth(year, month) ELSE dt.d
    IN  [dt EXCEPT !.y = year, !.m = month, !.d = day]

\* getBeginEnd that takes whatever is not FIXED as a number of days
getBeginEndDefaulting(dr, t) ==
    IF dr.dr_type = "FIXED"
    THEN [ok |-> TRUE, begin |-> dr.begin, end |-> dr.end]
    ELSE [ok |-> TRUE, begin |-> MinusDays(t, dr.quantity), end |-> t]

\* DateRange.getBeginEnd.  A bare "raise" with no exception being handled is a
\* TypeError in Python 2.
getBeginEnd(dr, t) ==
    IF dr.dr_type = "FIXED"
    THEN [ok |-> TRUE, begin |-> dr.begin, end |-> dr.end]
    ELSE IF dr.dr_type = "VARIABLE"
    THEN IF dr.unit = "DAY"
         THEN [ok |-> TRUE, begin |-> MinusDays(t, dr.quantity), end |-> t]
         ELSE IF dr.unit = "WEEK"
         THEN [ok |-> TRUE, begin |-> MinusDays(t, 7 * dr.quantity), end |-> t]
         ELSE IF dr.unit = "MONTH"
         THEN [ok |-> TRUE, begin |-> MinusMonths(t, 0, dr.quantity), end |-> t]
         ELSE IF dr.unit = "YEAR"
         THEN [ok |-> TRUE, begin |-> MinusMonths(t, dr.quantity, 0), end |-> t]
         ELSE [ok |-> FALSE, error |-> "TypeError"]
    ELSE [ok |-> FALSE, error |-> "TypeError"]

-----------------------------------------------------------------------------
(* The view/filter tables.  A row is [model, id, fk, data]: its table, its  *)
(* primary key, the primary key its ForeignKey field holds (0 for a View,  *)
(* which has none) and its other fields.                                   *)

ViewFilterFieldModels == <<"ReportType", "DateRange">>

FilterSetFilterFieldModels ==
    <<"ReportSender", "ReportReceiverDomain", "SourceIP", "RawDkimDomain",
      "RawDkimResult", "MultipleDkim", "RawSpfDomain", "RawSpfResult",
      "AlignedDkimResult", "AlignedSpfResult", "Disposition">>

Range(s) == {s[i] : i \in DOMAIN s}

Models == {"View", "FilterSet"} \cup Range(ViewFilterFieldModels)
              \cup Range(FilterSetFilterFieldModels)

\* The model a table's ForeignKey field points to.
related_model(model) ==
    IF model = "View" THEN ""
    ELSE IF model = "FilterSet" \/ model \in Range(ViewFilterFieldModels) THEN "View"
    ELSE "FilterSet"

\* The class attribute record_field of a FilterSetFilterField, split at ".".
record_field(model) ==
    CASE model = "ReportSender"         -> <<"Report", "Reporter", "email">>
      [] model = "ReportReceiverDomain" -> <<"Report", "domain">>
      [] model = "SourceIP"             -> <<"source_ip">>
      [] model = "RawDkimDomain"        -> <<"AuthResultDKIM", "domain">>
      [] model = "RawDkimResult"        -> <<"AuthResultDKIM", "result">>
      [] model = "RawSpfDomain"         -> <<"AuthResultSPF", "domain">>
      [] model = "RawSpfResult"         -> <<"AuthResultSPF", "result">>
      [] model = "AlignedDkimResult"    -> <<"dkim">>
      [] model = "AlignedSpfResult"     -> <<"spf">>
      [] model = "Disposition"          -> <<"disposition">>

\* str.lower() on the names that occur in a record_field
lower(name) ==
    CASE name = "Report"         -> "report"
      [] name = "Reporter"       -> "reporter"
      [] name = "AuthResultDKIM" -> "authresultdkim"
      [] name = "AuthResultSPF"  -> "authresultspf"
      [] OTHER                   -> name

\* rows of one table that point to obj, in primary-key order: manager.all()
RECURSIVE SortById(_)
SortById(S) ==
    IF S = {} THEN <<>>
    ELSE LET first == CHOOSE x \in S : \A y \in S : x.id <= y.id
         IN  <<first>> \o SortById(S \ {first})

ManagerAll(rs, model, obj) ==
    SortById({x \in rs : x.model = model /\ x.fk = obj.id})

\* _get_related_managers: the reverse relations of obj, those to a subclass
\* of parent_class when one is given ("" stands for parent_class = False).
\* A manager is the name of the related table.
_get_related_managers(obj, parent_class) ==
    LET reverse ==
            IF obj.model = "View"
            THEN <<"FilterSet">> \o ViewFilterFieldModels
            ELSE IF obj.model = "FilterSet" THEN FilterSetFilterFieldModels
            ELSE <<>>
        IsSub(m) ==
            \/ parent_class = ""
            \/ parent_class = "ViewFilterField" /\ m \in Range(ViewFilterFieldModels)
            \/ parent_class = "FilterSetFilterField"
                   /\ m \in Range(FilterSetFilterFieldModels)
    IN  SelectSeq(reverse, IsSub)

RECURSIVE Concat(_)
Concat(ss) == IF ss = <<>> THEN <<>> ELSE Head(ss) \o Concat(Tail(ss))

\* _get_related_objects
_get_related_objects(rs, obj) ==
    LET managers == _get_related_managers(obj, "")
    IN  Concat([i \in DOMAIN managers |-> ManagerAll(rs, managers[i], obj)])

-----------------------------------------------------------------------------
(* django.db.models.Q and QuerySet.filter, as far as the code uses them.   *)
(* A Q is a tree: a node [connector, children] or a leaf [key, value]      *)
(* with the lookup key split at "__".                                      *)

\* Q()
Q0 == [connector |-> "AND", children |-> <<>>]

\* Q(**{key: value})
Q(key, value) ==
    [connector |-> "AND",
     children |-> <<[connector |-> "LEAF", key |-> key, value |-> value]>>]

\* x | y and x & y
QOr(x, y) == [connector |-> "OR", children |-> <<x, y>>]

QAnd(x, y) == [connector |-> "AND", children |-> <<x, y>>]

\* reduce(lambda x, y: x | y, qs) and reduce(lambda x, y: x & y, qs), len(qs) > 0
RECURSIVE ReduceOr(_)
ReduceOr(qs) ==
    IF Len(qs) = 1 THEN qs[1]
    ELSE QOr(ReduceOr(SubSeq(qs, 1, Len(qs) - 1)), qs[Len(qs)])

RECURSIVE ReduceAnd(_)
ReduceAnd(qs) ==
    IF Len(qs) = 1 THEN qs[1]
    ELSE QAnd(ReduceAnd(SubSeq(qs, 1, Len(qs) - 1)), qs[Len(qs)])

\* A Q without any lookup below it adds no condition to the WHERE clause:
\* filter() drops it wherever it stands, also as an operand of | or &.
RECURSIVE IsEmptyQ(_)
IsEmptyQ(q) ==
    IF q.connector = "LEAF" THEN FALSE
    ELSE \A i \in DOMAIN q.children : IsEmptyQ(q.children[i])

\* the lookup keys below a Q
RECURSIVE Keys(_)
Keys(q) ==
    IF q.connector = "LEAF" THEN {q.key}
    ELSE UNION {Keys(q.children[i]) : i \in DOMAIN q.children}

References(q, relation) == \E k \in Keys(q) : k[1] = relation

\* The value a lookup path reaches from a joined row.
RECURSIVE Nav(_, _)
Nav(obj, path) ==
    IF path = <<>> THEN obj ELSE Nav(obj[Head(path)], Tail(path))

LookupType(key) ==
    IF key[Len(key)] \in {"gt", "gte", "lte"} THEN key[Len(key)] ELSE "exact"

LookupPath(key) ==
    IF LookupType(key) = "exact" THEN key ELSE SubSeq(key, 1, Len(key) - 1)

\* One lookup on one joined row.  A comparison with NULL is not true.
Lookup(leaf, joined) ==
    LET v == Nav(joined, LookupPath(leaf.key))
        t == LookupType(leaf.key)
    IN  IF t = "exact" THEN v # None /\ v = leaf.value
        ELSE IF t = "gt" THEN v > leaf.value
        ELSE IF t = "gte" THEN DtKey(v) >= DtKey(leaf.value)
        ELSE DtKey(v) <= DtKey(leaf.value)

RECURSIVE EvalQ(_, _)
EvalQ(q, joined) ==
    IF q.connector = "LEAF" THEN Lookup(q, joined)
    ELSE LET live == {i \in DOMAIN q.children : ~IsEmptyQ(q.children[i])}
         IN  IF q.connector = "AND"
             THEN \A i \in live : EvalQ(q.children[i], joined)
             ELSE live = {} \/ \E i \in live : EvalQ(q.children[i], joined)

\* The rows of the join that one filter(q) call builds for Record r: the
\* Record with its Report, and, for each child table q refers to, one of the
\* Record's child rows (one row with NULLs when it has none).  All lookups of
\* one filter() call on a child table read the same joined child row.
ChildIndexes(q, relation, children) ==
    IF References(q, relation) /\ children # <<>> THEN DOMAIN children ELSE {0}

NullChild == [domain |-> None, result |-> None]

JoinedRow(r, i, j) ==
    [report |-> r.report, source_ip |-> r.source_ip, dkim |-> r.dkim,
     spf |-> r.spf, disposition |-> r.disposition,
     auth_result_dkim_count |-> r.auth_result_dkim_count,
     authresultdkim |-> IF i = 0 THEN NullChild ELSE r.authresultdkim_set[i],
     authresultspf  |-> IF j = 0 THEN NullChild ELSE r.authresultspf_set[j]]

\* The joined rows of r that filter(q) keeps, as index pairs.
MatchingJoins(q, r) ==
    {ij \in ChildIndexes(q, "authresultdkim", r.authresultdkim_set)
              \X ChildIndexes(q, "authresultspf", r.authresultspf_set) :
        EvalQ(q, JoinedRow(r, ij[1], ij[2]))}

\* Record r is among Record.objects.filter(q)
Matches(q, r) == MatchingJoins(q, r) # {}

-----------------------------------------------------------------------------
(* Filter fields and FilterSet *)

\* DateRange.getRecordFilter, be being what self.getBeginEnd() returned
DateRangeFilter(be) ==
    IF be.ok
    THEN [ok |-> TRUE,
          q |-> QAnd(Q(<<"report", "date_range_begin", "gte">>, be.begin),
                     Q(<<"report", "date_range_begin", "lte">>, be.end))]
    ELSE be

\* getRecordFilter of every filter-field class; [ok, q] or [ok, error].
getRecordFilter(ff, t) ==
    IF ff.model = "ReportType"
    THEN [ok |-> TRUE, q |-> Q(<<"report", "report_type">>, ff.data.value)]
    ELSE IF ff.model = "DateRange"
    THEN DateRangeFilter(getBeginEnd(ff.data, t))
    ELSE IF ff.model = "MultipleDkim"
    THEN [ok |-> TRUE, q |-> Q(<<"auth_result_dkim_count", "gt">>, 1)]
    ELSE LET field == record_field(ff.model)
             key   == [i \in DOMAIN field |-> lower(field[i])]
         IN  [ok |-> TRUE, q |-> Q(key, ff.data.value)]

\* fs.view
ViewOf(rs, fs) == CHOOSE v \in rs : v.model = "View" /\ v.id = fs.fk

NonEmpty(l) == l # <<>>

\* The objects of the managers that hold any: filter_field_managers of getQuery
\* without the empty ones, one sequence of filter fields per manager.
FilterFieldsByManager(rs, fs) ==
    LET own    == _get_related_managers(fs, "FilterSetFilterField")
        shared == _get_related_managers(ViewOf(rs, fs), "ViewFilterField")
    IN  SelectSeq([i \in DOMAIN own |-> ManagerAll(rs, own[i], fs)]
                      \o [i \in DOMAIN shared |->
                             ManagerAll(rs, shared[i], ViewOf(rs, fs))],
                  NonEmpty)

\* getQuery from the filters on: filters[i][j] is what getRecordFilter() of
\* the j-th filter field of the i-th manager returned.  The filters of one
\* manager are ORed, the results ANDed; the first failure is the outcome.
CombineFilters(filters) ==
    LET failed   == {ij \in UNION {{<<i, j>> : j \in DOMAIN filters[i]} :
                                     i \in DOMAIN filters} : ~filters[ij[1]][ij[2]].ok}
        first    == CHOOSE ij \in failed : \A kl \in failed :
                        ij[1] < kl[1] \/ (ij[1] = kl[1] /\ ij[2] <= kl[2])
        or_queries == [i \in DOMAIN filters |->
                         ReduceOr([j \in DOMAIN filters[i] |-> filters[i][j].q])]
    IN  IF failed # {} THEN filters[first[1]][first[2]]
        ELSE IF or_queries # <<>>
        THEN [ok |-> TRUE, q |-> ReduceAnd(or_queries)]
        ELSE [ok |-> TRUE, q |-> Q0]

RecordFilters(used, t) ==
    [i \in DOMAIN used |-> [j \in DOMAIN used[i] |-> getRecordFilter(used[i][j], t)]]

\* FilterSet.getQuery: [ok, q] or [ok, error]
getQuery(rs, fs, t) == CombineFilters(RecordFilters(FilterFieldsByManager(rs, fs), t))

\* SUM("count") over the joined rows that filter(q) keeps of the Records in S
RECURSIVE SumCount(_, _)
SumCount(q, S) ==
    IF S = {} THEN 0
    ELSE LET r == CHOOSE x \in S : TRUE
         IN  r.count * Cardinality(MatchingJoins(q, r)) + SumCount(q, S \ {r})

RECURSIVE SortAscending(_)
SortAscending(S) ==
    IF S = {} THEN <<>>
    ELSE LET least == CHOOSE x \in S : \A y \in S : x <= y
         IN  <<least>> \o SortAscending(S \ {least})

\* FilterSet.getMessageCountPerDay.  getRecords() is filter(query) without
\* distinct(): the GROUP BY sums over the joined rows.  The date column is raw
\* SQL naming the table "myDmarcApp_report", which is in the FROM clause only
\* when a lookup of the query goes through report.
\* query is what self.getQuery() returned.
CountPerDay(recs, query) ==
    LET q     == query.q
        kept  == {r \in recs : Matches(q, r)}
        dates == {strftime(r.report.date_range_begin) : r \in kept}
        ordered == SortAscending(dates)
    IN  IF ~query.ok THEN query
        ELSE IF References(q, "report")
        THEN [ok |-> TRUE,
              value |-> [i \in DOMAIN ordered |->
                  [date |-> ordered[i],
                   cnt  |-> SumCount(q, {r \in kept :
                               strftime(r.report.date_range_begin) = ordered[i]})]]]
        ELSE [ok |-> FALSE, error |-> "ProgrammingError"]

getMessageCountPerDay(rs, recs, fs, t) == CountPerDay(recs, getQuery(rs, fs, t))

-----------------------------------------------------------------------------
(* View *)

FilterSetsOf(rs, view) == ManagerAll(rs, "FilterSet", view)

\* The Q that getTableRecords builds; reduce() of an empty list is a TypeError.
\* queries[i] is what getQuery() of the i-th filter set returned.
CombineQueries(queries) ==
    LET failed == {i \in DOMAIN queries : ~queries[i].ok}
    IN  IF queries = <<>> THEN [ok |-> FALSE, error |-> "TypeError"]
        ELSE IF failed # {} THEN queries[CHOOSE i \in failed : \A j \in failed : i <= j]
        ELSE [ok |-> TRUE, q |-> ReduceOr([i \in DOMAIN queries |-> queries[i].q])]

Queries(rs, fss, t) == [i \in DOMAIN fss |-> getQuery(rs, fss[i], t)]

TableQuery(rs, view, t) == CombineQueries(Queries(rs, FilterSetsOf(rs, view), t))

\* The orders in which ORDER BY may return rows, given as the set P of
\* <<key, row>>: ascending by key, rows of equal key in any order.
RECURSIVE OrderBy(_)
OrderBy(P) ==
    IF P = {} THEN {<<>>}
    ELSE UNION {{<<x[2]>> \o s : s \in OrderBy(P \ {x})} :
                   x \in {y \in P : \A z \in P : y[1] <= z[1]}}

ByDateRangeBegin(S) == {<<DtKey(r.report.date_range_begin), r>> : r \in S}

\* the place of a country code in the collation of the database
CountryRank(code) ==
    CASE code = "DE" -> 1 [] code = "FR" -> 2 [] code = "US" -> 3

ByCountry(S) == {<<CountryRank(r.country_iso_code), r>> : r \in S}

\* View.getTableRecords: the Records that filter(query).distinct() keeps,
\* [ok, value] or [ok, error]; order_by puts them in one of the orders of
\* OrderBy(ByDateRangeBegin(value)).
getTableRecords(rs, recs, view, t) ==
    LET query == TableQuery(rs, view, t)
    IN  IF query.ok
        THEN [ok |-> TRUE, value |-> {r \in recs : Matches(query.q, r)}]
        ELSE query

\* get_FOO_display(): the label that the choices of the field give the value
get_display(field, v) == <<field, v>>

\* one row of getTableData
TableRow(r) ==
    <<r.report.reporter.org_name,
      r.report.domain,
      r.source_ip,
      r.country_iso_code,
      strftime(r.report.date_range_begin),
      strftime(r.report.date_range_end),
      r.count,
      [i \in DOMAIN r.authresultdkim_set |-> r.authresultdkim_set[i].domain],
      [i \in DOMAIN r.authresultdkim_set |->
          get_display("result", r.authresultdkim_set[i].result)],
      get_display("dkim", r.dkim),
      [i \in DOMAIN r.authresultspf_set |-> r.authresultspf_set[i].domain],
      [i \in DOMAIN r.authresultspf_set |->
          get_display("result", r.authresultspf_set[i].result)],
      get_display("spf", r.spf),
      get_display("disposition", r.disposition),
      r.report.report_id>>

\* View.getTableData(records).  arg is [given |-> FALSE] for records = None
\* and [given |-> TRUE, records |-> a sequence] otherwise; an empty sequence
\* is false in "records or self.getTableRecords()".  table is what
\* getTableRecords() returns: [ok, value: a sequence] or [ok, error]; it is
\* called, and table read, only when arg is false.
getTableData(arg, table) ==
    IF arg.given /\ arg.records # <<>>
    THEN [ok |-> TRUE, value |-> [i \in DOMAIN arg.records |-> TableRow(arg.records[i])]]
    ELSE IF table.ok
    THEN [ok |-> TRUE, value |-> [i \in DOMAIN table.value |-> TableRow(table.value[i])]]
    ELSE table

csv_head ==
    <<"reporter", "domain", "ip", "country",
      "date_range_begin", "date_range_end",
      "count", "dkim domains", "dkim results",
      "aligned dkim", "spf domains", "spf results",
      "aligned spf", "disposition">>

\* View.getCsvData
getCsvData(table) ==
    LET data == getTableData([given |-> FALSE], table)
    IN  IF data.ok THEN [ok |-> TRUE, value |-> <<csv_head>> \o data.value]
        ELSE data

\* View.getLineData from "begin, end = date_range.getBeginEnd()" on; a begin
\* or end that is NULL has no strftime.  be is what getBeginEnd() returned,
\* data[i] what getMessageCountPerDay() of the i-th filter set returned.
Payload(be, fss, data) ==
    LET failed == {i \in DOMAIN data : ~data[i].ok}
    IN  IF ~be.ok THEN be
        ELSE IF be.begin = NoDt \/ be.end = NoDt
        THEN [ok |-> FALSE, error |-> "AttributeError"]
        ELSE IF failed # {} THEN data[CHOOSE i \in failed : \A j \in failed : i <= j]
        ELSE [ok |-> TRUE,
              value |-> [begin |-> strftime(be.begin),
                         end   |-> strftime(be.end),
                         data_sets |-> [i \in DOMAIN fss |->
                             [label |-> fss[i].data.label,
                              color |-> fss[i].data.color,
                              data  |-> data[i].value]]]]

CountsPerDay(rs, recs, fss, t) ==
    [i \in DOMAIN fss |-> getMessageCountPerDay(rs, recs, fss[i], t)]

LinePayload(rs, recs, view, t) ==
    Payload(getBeginEnd(ManagerAll(rs, "DateRange", view)[1].data, t),
            FilterSetsOf(rs, view),
            CountsPerDay(rs, recs, FilterSetsOf(rs, view), t))

\* getLineData without the refusal of a View that has no DateRange
getLineDataUnchecked(rs, recs, view, t) ==
    IF ManagerAll(rs, "DateRange", view) = <<>>
    THEN [ok |-> TRUE, value |-> [begin |-> 0, end |-> 0, data_sets |-> <<>>]]
    ELSE LinePayload(rs, recs, view, t)

\* View.getLineData
getLineData(rs, recs, view, t) ==
    IF ManagerAll(rs, "DateRange", view) = <<>>
    THEN [ok |-> FALSE, error |-> "Exception"]
    ELSE LinePayload(rs, recs, view, t)

-----------------------------------------------------------------------------
(* Saving, ordering, cloning and deleting.  st is [rows, nextId]; a primary *)
(* key of 0 stands for an object that has none yet (pk = None).            *)

\* models.Model.save: INSERT under the next primary key when the object has
\* none, UPDATE of its row otherwise.  [st, obj]: the store and the object
\* as it is after the call.
ModelSave(st, obj) ==
    IF obj.id = 0
    THEN LET saved == [obj EXCEPT !.id = st.nextId[obj.model]]
         IN  [st  |-> [rows   |-> st.rows \cup {saved},
                       nextId |-> [st.nextId EXCEPT ![obj.model] = @ + 1]],
              obj |-> saved]
    ELSE [st  |-> [st EXCEPT !.rows =
                      {x \in @ : ~(x.model = obj.model /\ x.id = obj.id)}
                          \cup {obj}],
          obj |-> obj]

\* self.__class__.all() in OrderedModel.save: a model class has no attribute
\* "all" (the manager is .objects), so the expression raises AttributeError
\* before aggregate() is reached.
ClassAll(rs, model) == [ok |-> FALSE, error |-> "AttributeError"]

\* OrderedModel.save
OrderedModelSave(st, obj) ==
    IF obj.id = 0
    THEN LET all == ClassAll(st.rows, obj.model)
             position == IF all.ok THEN all.value + 1 ELSE 0
         IN  ModelSave(st, [obj EXCEPT !.data.position = position])
    ELSE ModelSave(st, obj)

\* obj.save()
Save(st, obj) ==
    IF obj.model = "View" THEN OrderedModelSave(st, obj) ELSE ModelSave(st, obj)

\* order() with the positions counted from 1
RECURSIVE OrderFromOneBased(_, _, _)
OrderFromOneBased(st, orderedObjects, idx) ==
    IF idx > Len(orderedObjects) THEN st
    ELSE LET obj == [orderedObjects[idx] EXCEPT !.data.position = idx]
         IN  OrderFromOneBased(Save(st, obj).st, orderedObjects, idx + 1)

\* OrderedModel.order(orderedObjects), from index idx on
RECURSIVE OrderFrom(_, _, _)
OrderFrom(st, orderedObjects, idx) ==
    IF idx > Len(orderedObjects) THEN st
    ELSE LET obj == [orderedObjects[idx] EXCEPT !.data.position = idx - 1]
         IN  OrderFrom(Save(st, obj).st, orderedObjects, idx + 1)

OrderedModelOrder(st, orderedObjects) == OrderFrom(st, orderedObjects, 1)

NoParent == [model |-> "", id |-> 0]

\* a copy that keeps the ForeignKey of the original
CloneKeepParent(obj, parent_obj) == obj

\* _clone, the assignment of the parent: every ForeignKey field of obj whose
\* related model is the class of parent_obj is set to parent_obj.
CloneSetParent(obj, parent_obj) ==
    IF parent_obj # NoParent /\ related_model(obj.model) = parent_obj.model
    THEN [obj EXCEPT !.fk = parent_obj.id]
    ELSE obj

\* _clone(obj, parent_obj) and its loop over related_objects
RECURSIVE _clone(_, _, _)
RECURSIVE CloneEach(_, _, _)
_clone(st, obj, parent_obj) ==
    LET related_objects == _get_related_objects(st.rows, obj)
        saved == Save(st, [CloneSetParent(obj, parent_obj) EXCEPT !.id = 0])
    IN  CloneEach(saved.st, related_objects, saved.obj)

CloneEach(st, related_objects, obj) ==
    IF related_objects = <<>> THEN st
    ELSE CloneEach(_clone(st, Head(related_objects), obj), Tail(related_objects), obj)

\* a delete that removes the row alone
CollectOnlySelf(rs, obj) == {obj}

\* Model.delete(): the row and, ForeignKey being on_delete = CASCADE, every
\* row that points to a deleted row.
RECURSIVE Collect(_, _)
Collect(rs, obj) ==
    {obj} \cup UNION {Collect(rs, x) :
                        x \in {y \in rs : related_model(y.model) = obj.model
                                              /\ y.fk = obj.id}}

ModelDelete(st, obj) == [st EXCEPT !.rows = @ \ Collect(@, obj)]

\* View.objects.get(pk = view_id): the row, or DoesNotExist
Views(rs) == {x \in rs : x.model = "View"}

Exists(rs, view_id) == \E v \in Views(rs) : v.id = view_id

ViewGet(rs, view_id) == CHOOSE v \in Views(rs) : v.id = view_id

\* View.objects.all() under Meta.ordering = ["position"]: the orders that
\* ORDER BY position allows
ViewObjectsAll(rs) == OrderBy({<<v.data.position, v>> : v \in Views(rs)})

-----------------------------------------------------------------------------
(* The state machine of the view-management handlers *)

CriterionModels == Range(ViewFilterFieldModels) \cup Range(FilterSetFilterFieldModels)

RECURSIVE Total(_, _)
Total(f, S) ==
    IF S = {} THEN 0
    ELSE LET x == CHOOSE y \in S : TRUE IN f[x] - 1 + Total(f, S \ {x})

\* The tables stay within the bounds of the model.
WithinBounds(st, maxViews, maxCriteria) ==
    /\ st.nextId["View"] <= maxViews + 1
    /\ st.nextId["FilterSet"] <= MaxFilterSets + 1
    /\ Total(st.nextId, CriterionModels) <= maxCriteria

Store == [rows |-> rows, nextId |-> nextId]

Now0 == Dt(2024, 3, 15, 9)

FixedRange(begin, end) ==
    [dr_type |-> "FIXED", begin |-> begin, end |-> end, unit |-> None, quantity |-> 0]

VariableRange(unit, quantity) ==
    [dr_type |-> "VARIABLE", begin |-> NoDt, end |-> NoDt,
     unit |-> unit, quantity |-> quantity]

March == FixedRange(Dt(2024, 3, 1, 0), Dt(2024, 3, 31, 0))

\* The filter fields a posted form may hold, as <<model, data>>.
EditChoices ==
    {<<"Disposition", [value |-> "none"]>>, <<"Disposition", [value |-> "reject"]>>,
     <<"ReportType", [value |-> "INCOMING"]>>}

Labels == {"A"}

\* views.edit, POST of a valid form without view_id: view_form.save()
CreateView(maxViews) ==
    LET saved == Save(Store, [model |-> "View", id |-> 0, fk |-> 0,
                              data |-> [position |-> 0]])
    IN  /\ WithinBounds(saved.st, maxViews, MaxCriteria)
        /\ rows' = saved.st.rows
        /\ nextId' = saved.st.nextId
        /\ result' = [op |-> "create", view |-> saved.obj.id]
        /\ UNCHANGED <<records, now>>

\* views.edit, POST for an existing View of a form with one new filter set:
\* view_form.save() updates the View, filter_set_formset.save() inserts the
\* FilterSet
AddFilterSet(view_id, label) ==
    /\ Exists(rows, view_id)
    /\ LET updated == Save(Store, ViewGet(rows, view_id))
           saved   == Save(updated.st,
                           [model |-> "FilterSet", id |-> 0, fk |-> view_id,
                            data |-> [label |-> label, color |-> "#006699"]])
       IN  /\ WithinBounds(saved.st, MaxTreeViews, MaxCriteria)
           /\ rows' = saved.st.rows
           /\ nextId' = saved.st.nextId
           /\ result' = [op |-> "addFilterSet", view |-> view_id,
                         filterset |-> saved.obj.id]
    /\ UNCHANGED <<records, now>>

\* views.edit, POST for an existing View of a form with one new filter field,
\* of the View or of one of its filter sets
AddCriterion(owner, choice, maxCriteria) ==
    /\ owner \in rows
    /\ related_model(choice[1]) = owner.model
    /\ LET saved == Save(Store, [model |-> choice[1], id |-> 0, fk |-> owner.id,
                                 data |-> choice[2]])
       IN  /\ WithinBounds(saved.st, MaxTreeViews, maxCriteria)
           /\ rows' = saved.st.rows
           /\ nextId' = saved.st.nextId
           /\ result' = [op |-> "addCriterion", model |-> choice[1],
                         id |-> saved.obj.id]
    /\ UNCHANGED <<records, now>>

\* views.clone
Clone(view_id, maxViews) ==
    /\ IF Exists(rows, view_id)
       THEN LET st == _clone(Store, ViewGet(rows, view_id), NoParent)
            IN  /\ WithinBounds(st, maxViews, MaxCriteria)
                /\ rows' = st.rows
                /\ nextId' = st.nextId
                /\ result' = [op |-> "clone", view |-> view_id, ok |-> TRUE]
       ELSE /\ result' = [op |-> "clone", view |-> view_id, ok |-> FALSE,
                          error |-> "DoesNotExist"]
            /\ UNCHANGED <<rows, nextId>>
    /\ UNCHANGED <<records, now>>

\* views.delete
Delete(view_id) ==
    /\ IF Exists(rows, view_id)
       THEN /\ rows' = ModelDelete(Store, ViewGet(rows, view_id)).rows
            /\ result' = [op |-> "delete", view |-> view_id, ok |-> TRUE]
       ELSE /\ result' = [op |-> "delete", view |-> view_id, ok |-> FALSE,
                          error |-> "DoesNotExist"]
            /\ UNCHANGED rows
    /\ UNCHANGED <<nextId, records, now>>

\* views.edit, POST for an existing View of a form that marks one of its
\* filter sets for deletion: view_form.save() updates the View,
\* filter_set_formset.save() deletes the FilterSet
DeleteFilterSet(fs) ==
    /\ fs \in rows
    /\ fs.model = "FilterSet"
    /\ LET updated == Save(Store, ViewGet(rows, fs.fk))
       IN  rows' = ModelDelete(updated.st, fs).rows
    /\ result' = [op |-> "deleteFilterSet", view |-> fs.fk, filterset |-> fs.id]
    /\ UNCHANGED <<nextId, records, now>>

\* an order handler that fetches and saves one View after the other: the
\* Views listed before a missing id get their positions
OrderWritingPrefix(view_ids) ==
    LET found == {n \in 0..Len(view_ids) :
                     \A i \in 1..n : Exists(rows, view_ids[i])}
        last  == CHOOSE n \in found : \A m \in found : m <= n
        views == [i \in 1..last |-> ViewGet(rows, view_ids[i])]
    IN  /\ rows' = OrderedModelOrder(Store, views).rows
        /\ result' = IF last = Len(view_ids)
                     THEN [op |-> "order", view_ids |-> view_ids, ok |-> TRUE]
                     ELSE [op |-> "order", view_ids |-> view_ids, ok |-> FALSE,
                           error |-> "DoesNotExist"]
        /\ UNCHANGED <<nextId, records, now>>

\* views.order: the request body is a list of view ids
Order(view_ids) ==
    /\ IF \A i \in DOMAIN view_ids : Exists(rows, view_ids[i])
       THEN LET views == [i \in DOMAIN view_ids |-> ViewGet(rows, view_ids[i])]
            IN  /\ rows' = OrderedModelOrder(Store, views).rows
                /\ result' = [op |-> "order", view_ids |-> view_ids, ok |-> TRUE]
       ELSE /\ result' = [op |-> "order", view_ids |-> view_ids, ok |-> FALSE,
                          error |-> "DoesNotExist"]
            /\ UNCHANGED rows
    /\ UNCHANGED <<nextId, records, now>>

ViewIds == 1..MaxViews

TreeViewIds == 1..MaxTreeViews

ViewIdLists == UNION {[1..n -> ViewIds] : n \in 0..MaxViews}

Init ==
    /\ rows = {}
    /\ nextId = [m \in Models |-> 1]
    /\ records = {}
    /\ now = Now0
    /\ result = [op |-> "init"]

\* Building, cloning and deleting trees of Views, filter sets and filter fields
Next ==
    \/ CreateView(MaxTreeViews)
    \/ \E view_id \in TreeViewIds, label \in Labels : AddFilterSet(view_id, label)
    \/ \E owner \in rows, choice \in EditChoices : AddCriterion(owner, choice, MaxCriteria)
    \/ \E view_id \in TreeViewIds : Clone(view_id, MaxTreeViews)
    \/ \E view_id \in TreeViewIds : Delete(view_id)
    \/ \E fs \in rows : DeleteFilterSet(fs)

Spec == Init /\ [][Next]_vars

\* Creating, cloning, deleting and ordering Views
NextOrder ==
    \/ CreateView(MaxViews)
    \/ \E view_id \in ViewIds : Clone(view_id, MaxViews)
    \/ \E view_ids \in ViewIdLists : Order(view_ids)

SpecOrder == Init /\ [][NextOrder]_vars

\* the requests that list every View of rs exactly once
CompleteLists(rs) ==
    LET ids == {v.id : v \in Views(rs)}
    IN  {view_ids \in [1..Cardinality(ids) -> ids] :
            {view_ids[i] : i \in DOMAIN view_ids} = ids}

\* Creating and cloning Views and ordering all of them
NextOrderAll ==
    \/ CreateView(MaxOrderedViews)
    \/ \E view_id \in 1..MaxOrderedViews : Clone(view_id, MaxOrderedViews)
    \/ \E view_ids \in CompleteLists(rows) : Order(view_ids)

SpecOrderAll == Init /\ [][NextOrderAll]_vars

-----------------------------------------------------------------------------
(* The Record table.  A Record carries its Report (with the Reporter) and  *)
(* its AuthResultDKIM and AuthResultSPF rows.                              *)

Google == [org_name |-> "google.com", email |-> "noreply@google.com"]

Yahoo == [org_name |-> "yahoo.com", email |-> "dmarc@yahoo.com"]

Report(report_id, report_type, begin, end, reporter) ==
    [report_id |-> report_id, report_type |-> report_type,
     date_range_begin |-> begin, date_range_end |-> end,
     domain |-> "example.com", reporter |-> reporter]

Auth(domain, res) == [domain |-> domain, result |-> res]

Record(id, report, source_ip, country, count, disposition, dkim, spf, dkims, spfs) ==
    [id |-> id, report |-> report, source_ip |-> source_ip,
     country_iso_code |-> country, count |-> count, disposition |-> disposition,
     dkim |-> dkim, spf |-> spf, auth_result_dkim_count |-> Len(dkims),
     authresultdkim_set |-> dkims, authresultspf_set |-> spfs]

\* Two Records of one calendar day, the first with two DKIM results; a
\* Record of another direction without DKIM results; a Record with two DKIM
\* results of one domain; a Record without a source address.
RecordPool ==
    <<Record(1, Report("r1", "INCOMING", Dt(2024, 3, 10, 0), Dt(2024, 3, 11, 0), Google),
             "192.0.2.1", "US", 5, "none", "pass", "pass",
             <<Auth("a.example", "pass"), Auth("b.example", "fail")>>,
             <<Auth("a.example", "pass")>>),
      Record(2, Report("r2", "INCOMING", Dt(2024, 3, 10, 12), Dt(2024, 3, 11, 12), Yahoo),
             "192.0.2.2", "DE", 3, "reject", "fail", "fail",
             <<Auth("a.example", "pass"), Auth("a.example", "fail")>>,
             <<Auth("b.example", "fail")>>),
      Record(3, Report("r3", "OUTGOING", Dt(2014, 7, 1, 0), Dt(2014, 7, 2, 0), Google),
             "192.0.2.3", "US", 2, "none", "fail", "pass",
             <<>>, <<>>),
      Record(4, Report("r4", "INCOMING", Dt(2024, 2, 20, 0), Dt(2024, 2, 21, 0), Yahoo),
             None, "DE", 1, "reject", "pass", "fail",
             <<Auth("b.example", "pass")>>, <<Auth("a.example", "pass")>>),
      Record(5, Report("r1", "INCOMING", Dt(2024, 3, 10, 0), Dt(2024, 3, 11, 0), Google),
             "192.0.2.5", "FR", 7, "none", "pass", "pass",
             <<Auth("b.example", "pass")>>, <<>>)>>

\* The stores of the model: the empty one and the first MaxRecords Records
\* of the pool.
RecordStores ==
    {{RecordPool[i] : i \in 1..n} :
        n \in {m \in {0, MaxRecords} : m <= Len(RecordPool)}}

-----------------------------------------------------------------------------
(* The read operations of a View *)

\* What getTableRecords() may return, its rows fetched: one value per order
\* that ORDER BY report.date_range_begin allows.
TableRecordsResults(rs, recs, view, t) ==
    LET table == getTableRecords(rs, recs, view, t)
    IN  IF table.ok
        THEN {[ok |-> TRUE, value |-> s] : s \in OrderBy(ByDateRangeBegin(table.value))}
        ELSE {table}

\* The filter fields a View of the query model may hold, as <<model, data>>.
\* "HOUR" stands for a unit that is none of the four that getBeginEnd knows
\* (the column is an integer that may be NULL).
QueryChoices ==
    {<<"Disposition", [value |-> "none"]>>, <<"Disposition", [value |-> "reject"]>>,
     <<"RawDkimDomain", [value |-> "a.example"]>>,
     <<"RawDkimDomain", [value |-> "b.example"]>>,
     <<"RawDkimResult", [value |-> "pass"]>>,
     <<"MultipleDkim", [value |-> "False"]>>,
     <<"ReportType", [value |-> "INCOMING"]>>,
     <<"DateRange", March>>,
     <<"DateRange", VariableRange("MONTH", 1)>>,
     <<"DateRange", VariableRange("DAY", 1)>>,
     <<"DateRange", VariableRange("HOUR", 1)>>}

FilterSets(rs) == {x \in rs : x.model = "FilterSet"}

\* the sequences of distinct Records of the store, up to two Records long
Pages(recs) ==
    {<<>>} \cup {<<r>> : r \in recs}
           \cup {<<p[1], p[2]>> : p \in {x \in recs \X recs : x[1] # x[2]}}

RecordsArgs(recs) ==
    {[given |-> FALSE]} \cup {[given |-> TRUE, records |-> p] : p \in Pages(recs)}

GetQuery(fs) ==
    /\ result' = [op |-> "getQuery", filterset |-> fs.id,
                  value |-> getQuery(rows, fs, now)]
    /\ UNCHANGED <<rows, nextId, records, now>>

GetMessageCountPerDay(fs) ==
    /\ result' = [op |-> "getMessageCountPerDay", filterset |-> fs.id,
                  value |-> getMessageCountPerDay(rows, records, fs, now)]
    /\ UNCHANGED <<rows, nextId, records, now>>

GetTableRecords(view) ==
    /\ \E table \in TableRecordsResults(rows, records, view, now) :
           result' = [op |-> "getTableRecords", view |-> view.id, value |-> table]
    /\ UNCHANGED <<rows, nextId, records, now>>

GetTableData(view, arg) ==
    /\ \E table \in IF arg.given /\ arg.records # <<>>
                     THEN {[ok |-> TRUE, value |-> <<>>]}
                     ELSE TableRecordsResults(rows, records, view, now) :
           result' = [op |-> "getTableData", view |-> view.id, arg |-> arg,
                      value |-> getTableData(arg, table)]
    /\ UNCHANGED <<rows, nextId, records, now>>

GetCsvData(view) ==
    /\ \E table \in TableRecordsResults(rows, records, view, now) :
           result' = [op |-> "getCsvData", view |-> view.id,
                      value |-> getCsvData(table)]
    /\ UNCHANGED <<rows, nextId, records, now>>

GetLineData(view) ==
    /\ result' = [op |-> "getLineData", view |-> view.id,
                  value |-> getLineData(rows, records, view, now)]
    /\ UNCHANGED <<rows, nextId, records, now>>

\* django.core.paginator: Paginator(object_list, per_page).page(number), with
\* orphans = 0 and allow_empty_first_page = True
PaginatorPage(object_list, per_page, number) ==
    LET count     == Len(object_list)
        hits      == IF count > 1 THEN count ELSE 1
        num_pages == (hits + per_page - 1) \div per_page
        bottom    == (number - 1) * per_page
        top       == IF bottom + per_page >= count THEN count ELSE bottom + per_page
    IN  IF number < 1 \/ number > num_pages
        THEN [ok |-> FALSE, error |-> "EmptyPage"]
        ELSE [ok |-> TRUE, value |-> SubSeq(object_list, bottom + 1, top)]

\* the date range that get_table filters by: 2014-07-01 to 2014-07-02
TableRange == FixedRange(Dt(2014, 7, 1, 0), Dt(2014, 7, 2, 0))

\* views.get_table with the parameters start and length of the request
GetTable(view, start, length) ==
    /\ LET table == getTableRecords(rows, records, view, now)
           date_range_filter ==
               getRecordFilter([model |-> "DateRange", data |-> TableRange], now).q
       IN  IF ~table.ok
           THEN result' = [op |-> "get_table", view |-> view.id, value |-> table]
           ELSE LET filtered == {r \in table.value : Matches(date_range_filter, r)}
                IN  \E ordered \in OrderBy(ByCountry(filtered)),
                       again \in OrderBy(ByDateRangeBegin(table.value)) :
                       LET page == PaginatorPage(ordered, length, start \div length + 1)
                           data == getTableData([given |-> TRUE, records |-> page.value],
                                                [ok |-> TRUE, value |-> again])
                       IN  result' =
                             [op |-> "get_table", view |-> view.id,
                              value |-> IF ~page.ok THEN page
                                        ELSE [ok |-> TRUE,
                                              value |-> [recordsTotal |-> Cardinality(table.value),
                                                         recordsFiltered |-> Cardinality(filtered),
                                                         page |-> page.value,
                                                         data |-> data.value]]]
    /\ UNCHANGED <<rows, nextId, records, now>>

InitQuery ==
    /\ rows = {[model |-> "View", id |-> 1, fk |-> 0, data |-> [position |-> 0]]}
    /\ nextId = [m \in Models |-> IF m = "View" THEN 2 ELSE 1]
    /\ records \in RecordStores
    /\ now = Now0
    /\ result = [op |-> "init"]

NextQuery ==
    \/ \E view \in Views(rows), label \in Labels : AddFilterSet(view.id, label)
    \/ \E owner \in rows, choice \in QueryChoices :
           AddCriterion(owner, choice, MaxQueryCriteria)
    \/ \E fs \in FilterSets(rows) : GetQuery(fs)
    \/ \E fs \in FilterSets(rows) : GetMessageCountPerDay(fs)
    \/ \E view \in Views(rows) : GetTableRecords(view)
    \/ \E view \in Views(rows) : GetLineData(view)

SpecQuery == InitQuery /\ [][NextQuery]_vars

\* The table of a View: getTableData, getCsvData and the get_table handler
NextTable ==
    \/ \E view \in Views(rows), label \in Labels : AddFilterSet(view.id, label)
    \/ \E owner \in rows, choice \in QueryChoices :
           AddCriterion(owner, choice, MaxQueryCriteria)
    \/ \E view \in Views(rows), arg \in RecordsArgs(records) : GetTableData(view, arg)
    \/ \E view \in Views(rows) : GetCsvData(view)
    \/ \E view \in Views(rows), start \in 0..1, length \in 1..2 :
           GetTable(view, start, length)

SpecTable == InitQuery /\ [][NextTable]_vars

-----------------------------------------------------------------------------
(* DateRange.getBeginEnd over a range of configurations and clocks *)

Clocks ==
    {Dt(y, m, d, 9) : y \in {2023, 2024}, m \in 1..12, d \in {1, 15, 28, 29, 30, 31}}
        \cap {dt \in [y : {2023, 2024}, m : 1..12, d : 1..31, h : {9}] :
                 dt.d <= DaysInMonth(dt.y, dt.m)}

DateRanges ==
    {March, FixedRange(Dt(2024, 3, 31, 0), Dt(2024, 3, 1, 0))}
        \cup {VariableRange(unit, quantity) :
                 unit \in {"DAY", "WEEK", "MONTH", "YEAR", "HOUR"},
                 quantity \in 0..MaxQuantity}
        \cup {[VariableRange("DAY", 1) EXCEPT !.dr_type = "ROLLING"]}

GetBeginEnd(date_range) ==
    /\ result' = [op |-> "getBeginEnd", id |-> date_range.id,
                  value |-> getBeginEnd(date_range.data, now)]
    /\ UNCHANGED <<rows, nextId, records, now>>

GetRecordFilter(date_range) ==
    /\ result' = [op |-> "getRecordFilter", id |-> date_range.id,
                  value |-> getRecordFilter(date_range, now)]
    /\ UNCHANGED <<rows, nextId, records, now>>

\* a View with one DateRange and one filter set
InitDR ==
    /\ \E data \in DateRanges :
           rows = {[model |-> "View", id |-> 1, fk |-> 0, data |-> [position |-> 0]],
                   [model |-> "DateRange", id |-> 1, fk |-> 1, data |-> data],
                   [model |-> "FilterSet", id |-> 1, fk |-> 1,
                    data |-> [label |-> "A", color |-> "#006699"]]}
    /\ nextId = [m \in Models |->
                    IF m \in {"View", "DateRange", "FilterSet"} THEN 2 ELSE 1]
    /\ records = {}
    /\ now \in Clocks
    /\ result = [op |-> "init"]

NextDR ==
    \/ \E date_range \in {x \in rows : x.model = "DateRange"} : GetBeginEnd(date_range)
    \/ \E date_range \in {x \in rows : x.model = "DateRange"} :
           GetRecordFilter(date_range)
    \/ \E fs \in FilterSets(rows) : GetQuery(fs)

SpecDR == InitDR /\ [][NextDR]_vars

-----------------------------------------------------------------------------
(* Claims *)

RowOf(model, id) == CHOOSE x \in rows : x.model = model /\ x.id = id

\* the filter fields attached to filter set fs or to its View
Attached(fs) ==
    {c \in rows : \/ c.model \in Range(FilterSetFilterFieldModels) /\ c.fk = fs.id
                  \/ c.model \in Range(ViewFilterFieldModels) /\ c.fk = fs.fk}

\* Record r satisfies filter field c: it is among the Records that the
\* filter of c alone selects
Satisfies(r, c) == Matches(getRecordFilter(c, now).q, r)

\* C1: getQuery() of a filter set matches a Record exactly when, for every
\* variant with a filter field attached to the filter set or to its View, the
\* Record satisfies at least one filter field of that variant.
C1_MatchesIffEveryVariantSatisfied ==
    result.op = "getQuery" /\ result.value.ok =>
        LET fs == RowOf("FilterSet", result.filterset)
        IN  \A r \in records :
                Matches(result.value.q, r) <=>
                    \A m \in {c.model : c \in Attached(fs)} :
                        \E c \in Attached(fs) : c.model = m /\ Satisfies(r, c)

\* C2: getTableRecords() of a View with a filter set returns exactly the
\* Records that getQuery() of at least one of its filter sets matches, each
\* once, ascending by date_range_begin of the Report.
C2_TableRecordsAreUnionOfFilterSets ==
    result.op = "getTableRecords" /\ result.value.ok
        /\ (\E fs \in FilterSets(rows) : fs.fk = result.view) =>
        /\ LET got == result.value.value
           IN  /\ Range(got) =
                    {r \in records :
                        \E fs \in FilterSets(rows) :
                            /\ fs.fk = result.view
                            /\ Matches(getQuery(rows, fs, now).q, r)}
               /\ \A i, j \in DOMAIN got :
                      i < j => /\ got[i] # got[j]
                               /\ DtKey(got[i].report.date_range_begin)
                                      <= DtKey(got[j].report.date_range_begin)

\* C3: getTableData(records) with a collection supplied returns one row per
\* supplied Record, in the supplied order, and no other row, also for an
\* empty collection.
C3_SuppliedRecordsAreTheRows ==
    result.op = "getTableData" /\ result.arg.given /\ result.value.ok =>
        /\ Len(result.value.value) = Len(result.arg.records)
        /\ \A i \in DOMAIN result.arg.records :
               result.value.value[i] = TableRow(result.arg.records[i])

\* C4: every row of getCsvData(), the header row and the data rows, has the
\* same number of columns, 14.
C4_CsvRowsHaveFourteenColumns ==
    result.op = "getCsvData" /\ result.value.ok =>
        \A i \in DOMAIN result.value.value : Len(result.value.value[i]) = 14

HasDateRange(view_id) == \E c \in rows : c.model = "DateRange" /\ c.fk = view_id

\* getBeginEnd() succeeds for every DateRange of the View
DateRangesResolve(view_id) ==
    \A c \in rows : c.model = "DateRange" /\ c.fk = view_id => getBeginEnd(c.data, now).ok

\* the data sets of the payload are those of the filter sets, in their order
OneDataSetPerFilterSet(payload, fss) ==
    /\ Len(payload.data_sets) = Len(fss)
    /\ \A i \in DOMAIN fss : payload.data_sets[i].label = fss[i].data.label

RECURSIVE DaysBeforeMonth(_, _)
DaysBeforeMonth(y, m) ==
    IF m = 1 THEN 0 ELSE DaysBeforeMonth(y, m - 1) + DaysInMonth(y, m - 1)

Ordinal(dt) ==
    LET p == dt.y - 1
    IN  365 * p + (p \div 4) - (p \div 100) + (p \div 400)
            + DaysBeforeMonth(dt.y, dt.m) + dt.d

\* begin is end moved back by a number of calendar months: the same day of
\* the earlier month, or that month's last day, at the same time of day
MonthsBack(begin, end, months) ==
    /\ begin.y * 12 + begin.m = end.y * 12 + end.m - months
    /\ begin.d = IF end.d <= DaysInMonth(begin.y, begin.m)
                 THEN end.d ELSE DaysInMonth(begin.y, begin.m)
    /\ begin.h = end.h

\* begin is end moved back by a number of days
DaysBack(begin, end, days) ==
    /\ Ordinal(begin) = Ordinal(end) - days
    /\ begin.d \in 1..DaysInMonth(begin.y, begin.m)
    /\ begin.m \in 1..12
    /\ begin.h = end.h

\* C6: getBeginEnd() of a FIXED DateRange returns the stored begin and end;
\* of a VARIABLE one it returns end = now and begin = now minus quantity days,
\* weeks, calendar months or calendar years, a month or year keeping the day
\* of the month or taking the last day of a shorter month; begin <= end.
C6_BeginEndOfDateRange ==
    result.op = "getBeginEnd" =>
        LET dr == RowOf("DateRange", result.id).data
            v  == result.value
        IN  /\ dr.dr_type = "FIXED" =>
                   v = [ok |-> TRUE, begin |-> dr.begin, end |-> dr.end]
            /\ dr.dr_type = "VARIABLE"
                   /\ dr.unit \in {"DAY", "WEEK", "MONTH", "YEAR"} =>
                   /\ v.ok
                   /\ v.end = now
                   /\ DtKey(v.begin) <= DtKey(v.end)
                   /\ dr.unit = "DAY" => DaysBack(v.begin, now, dr.quantity)
                   /\ dr.unit = "WEEK" => DaysBack(v.begin, now, 7 * dr.quantity)
                   /\ dr.unit = "MONTH" => MonthsBack(v.begin, now, dr.quantity)
                   /\ dr.unit = "YEAR" => MonthsBack(v.begin, now, 12 * dr.quantity)

C6_Witness ==
    /\ result.op = "getBeginEnd"
    /\ RowOf("DateRange", result.id).data = VariableRange("MONTH", 1)
    /\ now = Dt(2024, 3, 15, 9)
    /\ result.value.ok
    /\ result.value.begin = Dt(2024, 2, 15, 9)

\* the view ids of a request that names every existing View exactly once
IsCompleteOrder(view_ids) ==
    /\ {view_ids[i] : i \in DOMAIN view_ids} = {v.id : v \in Views(rows)}
    /\ Len(view_ids) = Cardinality(Views(rows))

\* C7: order(list) with a list of every existing View, each once, stores as
\* the position of each View its 0-based index in the list; the positions
\* are then 0..n-1 without duplicates and retrieval by position returns the
\* Views in the order of the list.
C7_OrderStoresIndexAsPosition ==
    result.op = "order" /\ result.ok /\ IsCompleteOrder(result.view_ids) =>
        LET ids == result.view_ids
        IN  /\ \A i \in DOMAIN ids : RowOf("View", ids[i]).data.position = i - 1
            /\ {v.data.position : v \in Views(rows)} = 0..(Len(ids) - 1)
            /\ \A v, w \in Views(rows) : v.data.position = w.data.position => v = w
            /\ ViewObjectsAll(rows) = {[i \in DOMAIN ids |-> RowOf("View", ids[i])]}

C7_Witness ==
    /\ result.op = "order"
    /\ result.ok
    /\ result.view_ids = <<3, 1, 2>>
    /\ IsCompleteOrder(result.view_ids)
    /\ RowOf("View", 3).data.position = 0
    /\ RowOf("View", 1).data.position = 1
    /\ RowOf("View", 2).data.position = 2

\* the greatest element of a non-empty set of numbers
Max(S) == CHOOSE x \in S : \A y \in S : y <= x

\* C8: a View saved for the first time gets the position max(position of the
\* existing Views) + 1, and 0 when there is no other View.
C8_NewViewGetsMaxPositionPlusOne ==
    result.op = "create" =>
        LET others == {v \in Views(rows) : v.id # result.view}
        IN  RowOf("View", result.view).data.position =
                IF others = {} THEN 0
                ELSE Max({v.data.position : v \in others}) + 1

\* the rows of the tree of View view_id in the table rows rs
TreeOf(rs, view_id) == Collect(rs, ViewGet(rs, view_id))

\* f maps the tree of View view_id in old one-to-one onto the rows that new
\* adds: each image is of the same model under an id the table did not hold,
\* a filter set or filter field holds the same field values, and each image
\* references the image of the row that its original references.
IsCopy(f, old, new, view_id) ==
    LET tree == TreeOf(old, view_id)
    IN  /\ {f[x] : x \in tree} = new \ old
        /\ \A x, y \in tree : f[x] = f[y] => x = y
        /\ \A x \in tree :
               /\ f[x].model = x.model
               /\ \A o \in old : o.model = x.model => o.id # f[x].id
               /\ x.model # "View" => f[x].data = x.data
               /\ IF x.model = "View" THEN f[x].fk = 0
                  ELSE \E p \in tree : /\ p.model = related_model(x.model)
                                       /\ p.id = x.fk
                                       /\ f[x].fk = f[p].id

CloneCorrect(old, new, view_id) ==
    /\ old \subseteq new
    /\ Cardinality({x \in new \ old : x.model = "View"}) = 1
    /\ \E f \in [TreeOf(old, view_id) -> new \ old] : IsCopy(f, old, new, view_id)

\* C9: cloning a View adds one new View and, for each filter set and filter
\* field of its tree, one new row under a new id with the same field values,
\* each referencing the copy of its parent, and leaves the rows of the
\* original tree as they were.
C9_CloneCopiesTheTree ==
    [][result'.op = "clone" /\ result'.ok =>
          CloneCorrect(rows, rows', result'.view)]_vars

C9_Witness ==
    /\ result.op = "clone"
    /\ result.ok
    /\ \E v, w \in Views(rows) :
           /\ v.id = result.view
           /\ w.id # v.id
           /\ \A u \in {v, w} :
                  \E fs \in rows, c \in rows :
                      /\ fs.model = "FilterSet" /\ fs.fk = u.id
                      /\ c.model = "Disposition" /\ c.fk = fs.id

\* the sum of the count field over a set of Records
RECURSIVE SumOfCounts(_)
SumOfCounts(S) ==
    IF S = {} THEN 0
    ELSE LET r == CHOOSE x \in S : TRUE IN r.count + SumOfCounts(S \ {r})

\* C10: getMessageCountPerDay() returns one (date, total) pair per calendar
\* date that has a Record matched by getQuery(), total being the sum of count
\* over the matched Records of the date, each Record once, in ascending order
\* of the date.
C10_OneTotalPerDayEachRecordOnce ==
    result.op = "getMessageCountPerDay" /\ result.value.ok =>
        LET fs      == RowOf("FilterSet", result.filterset)
            matched == {r \in records : Matches(getQuery(rows, fs, now).q, r)}
            day(r)  == strftime(r.report.date_range_begin)
            got     == result.value.value
        IN  /\ {got[i].date : i \in DOMAIN got} = {day(r) : r \in matched}
            /\ \A i, j \in DOMAIN got : i < j => got[i].date < got[j].date
            /\ \A i \in DOMAIN got :
                   got[i].cnt = SumOfCounts({r \in matched : day(r) = got[i].date})

\* every filter set references a View of rs, every filter field a filter
\* set or a View of rs
ReferencesExist(rs) ==
    \A x \in rs :
        x.model # "View" =>
            \E p \in rs : p.model = related_model(x.model) /\ p.id = x.fk

\* row x of rs belongs to the tree of View view_id: the View, a filter set
\* or filter field of the View, or a filter field of one of its filter sets
InTreeOfView(rs, x, view_id) ==
    \/ x.model = "View" /\ x.id = view_id
    \/ related_model(x.model) = "View" /\ x.fk = view_id
    \/ /\ related_model(x.model) = "FilterSet"
       /\ \E fs \in rs : fs.model = "FilterSet" /\ fs.id = x.fk /\ fs.fk = view_id

\* row x of rs is filter set fs_id or one of its filter fields
InTreeOfFilterSet(x, fs_id) ==
    \/ x.model = "FilterSet" /\ x.id = fs_id
    \/ related_model(x.model) = "FilterSet" /\ x.fk = fs_id

\* what the step deleted, for the deletion of a View and of a filter set
DeletesTheTree ==
    /\ result'.op = "delete" /\ result'.ok =>
           rows' = {x \in rows : ~InTreeOfView(rows, x, result'.view)}
    /\ result'.op = "deleteFilterSet" =>
           rows' = {x \in rows : ~InTreeOfFilterSet(x, result'.filterset)}

\* C11: in every reachable store each filter set references an existing View
\* and each filter field an existing filter set or View; deleting a View
\* removes exactly the rows of its tree and deleting a filter set exactly the
\* filter set and its filter fields, every other row staying as it was.
C11_NoDanglingReferences ==
    [](ReferencesExist(rows)) /\ [][DeletesTheTree]_vars

\* a View with a filter set and a filter field has been deleted while the
\* other View keeps its filter set and filter field
C11_Witness ==
    /\ result.op = "delete"
    /\ result.ok
    /\ nextId["View"] = 3 /\ nextId["FilterSet"] = 3 /\ nextId["Disposition"] = 3
    /\ Cardinality(Views(rows)) = 1
    /\ Cardinality(rows) = 3
    /\ ReferencesExist(rows)

\* the configurations of a DateRange that getBeginEnd has no range for
Unconfigured(dr) ==
    \/ dr.dr_type \notin {"FIXED", "VARIABLE"}
    \/ dr.dr_type = "VARIABLE" /\ dr.unit \notin {"DAY", "WEEK", "MONTH", "YEAR"}

\* an exception that the caller can catch, and no value
Raises(value) == ~value.ok /\ value.error \in {"TypeError"}

NamesMissingView(view_ids) ==
    \E i \in DOMAIN view_ids : \A v \in Views(rows) : v.id # view_ids[i]

\* C13: an order request that lists an id of no View fails, the failure
\* reaches the caller, and every row of the store, the position of every View
\* with it, is as before the request.
C13_FailedOrderWritesNothing ==
    [][result'.op = "order" /\ NamesMissingView(result'.view_ids) =>
          /\ ~result'.ok
          /\ result'.error = "DoesNotExist"
          /\ rows' = rows]_vars

\* the request [2, 1, 3] has failed for the missing View 3 and Views 2 and 1,
\* listed before it, still have the position they were created with
C13_Witness ==
    /\ result.op = "order"
    /\ ~result.ok
    /\ result.view_ids = <<2, 1, 3>>
    /\ {v.id : v \in Views(rows)} = {1, 2}
    /\ \A v \in Views(rows) : v.data.position = 0

\* C14: after creations and clones of Views and order requests that list
\* every View exactly once, no two Views of the store have the same position.
C14_PositionsAreDistinct ==
    \A v, w \in Views(rows) : v.data.position = w.data.position => v = w

\* C15: every (date, count) pair of every data set that getLineData() returns
\* has its date within begin and end of the same payload, both included.
C15_LineDatesWithinReportedRange ==
    result.op = "getLineData" /\ result.value.ok =>
        LET payload == result.value.value
        IN  \A i \in DOMAIN payload.data_sets :
                \A k \in DOMAIN payload.data_sets[i].data :
                    /\ payload.begin <= payload.data_sets[i].data[k].date
                    /\ payload.data_sets[i].data[k].date <= payload.end

=============================================================================
